---- MODULE Spec2Model ----
(***************************************************************************)
(* A model of assets/scripts/build_gallery.py: the static dependency       *)
(* extractor get_contrib_requirements, the shell helper                    *)
(* execute_shell_command, the orchestrator build_gallery and the script's  *)
(* __main__ block.                                                         *)
(*                                                                         *)
(* Two specifications share the module.  SpecExtract runs the extractor's  *)
(* loop over the top-level statements of a parsed source file drawn from   *)
(* Files.  Spec runs build_gallery (and, when started as the script, the   *)
(* final JSON dump) against an environment drawn in Init: the registry,    *)
(* the experimental directory, the aggregators' __all__ lists.             *)
(*                                                                         *)
(* A Python str is a TLA+ string where the program only passes it around   *)
(* (requirement specifiers, module names) and a sequence of characters     *)
(* where the program iterates over it (class names).                       *)
(***************************************************************************)
EXTENDS Integers, Sequences, FiniteSets, TLC

VARIABLES
    \* ---- get_contrib_requirements ----
    x_pc,               \* "idle" | "loop" | "returned" | "raised"
    x_tree,             \* ast.parse(file.read()): the module's top-level statements
    x_idx,              \* position of the for loop of line 75
    requirements_info,  \* the dict of line 74
    x_exc,              \* the exception that left the function, or "none"
    \* ---- build_gallery and __main__ ----
    pc,                 \* the program's position
    as_main,            \* TRUE: run as the script; FALSE: build_gallery called directly
    include_core, include_contrib_experimental,
    registry,           \* the library's expectation registry (set of identifiers)
    dir_files,          \* (file name, parsed content) pairs in os.walk order
    expectations_all, metrics_all,     \* the aggregators' __all__
    core_expectations, all_expectations, build_expectations,
    requirements_dict,
    fi, pi, ri,         \* loop positions: file, declared plugin, requirement
    gallery_info,
    diag_calls,         \* identifier -> number of run_diagnostics calls made
    log,                \* the external collaborations made so far, in order
    exc,                \* the uncaught exception that ended the run, or "none"
    outfile             \* ./expectation_library.json

xvars == <<x_pc, x_tree, x_idx, requirements_info, x_exc>>
gvars == <<pc, as_main, include_core, include_contrib_experimental, registry,
           dir_files, expectations_all, metrics_all, core_expectations,
           all_expectations, build_expectations, requirements_dict, fi, pi, ri,
           gallery_info, diag_calls, log, exc, outfile>>
vars == <<xvars, gvars>>

Range(s) == {s[i] : i \in DOMAIN s}

RECURSIVE Flatten(_)
Flatten(ss) == IF ss = <<>> THEN <<>> ELSE Head(ss) \o Flatten(Tail(ss))

(***************************************************************************)
(* The syntax tree.  Every statement node has the same fields; a field a   *)
(* node type does not have is empty and never read for that type.          *)
(***************************************************************************)
NoAttr == "<no such attribute>"

NameT(id)      == [t |-> "Name", id |-> id, elts |-> <<>>]
TupleT(elts)   == [t |-> "Tuple", id |-> NoAttr, elts |-> elts]
AttributeT(a)  == [t |-> "Attribute", id |-> NoAttr, elts |-> <<a>>]

CallE          == [e |-> "Call", keys |-> {}, requirements |-> <<>>]
ListE          == [e |-> "List", keys |-> {}, requirements |-> <<>>]
DictE(ks, rs)  == [e |-> "Dict", keys |-> ks, requirements |-> rs]
NoneE          == [e |-> "None", keys |-> {}, requirements |-> <<>>]

Pass           == [k |-> "Pass", name |-> <<>>, body |-> <<>>,
                   targets |-> <<>>, value |-> NoneE]
Assign(ts, v)  == [k |-> "Assign", name |-> <<>>, body |-> <<>>,
                   targets |-> ts, value |-> v]
ClassDef(n, b) == [k |-> "ClassDef", name |-> n, body |-> b,
                   targets |-> <<>>, value |-> NoneE]
FunctionDef(b) == [k |-> "FunctionDef", name |-> <<"f">>, body |-> b,
                   targets |-> <<>>, value |-> NoneE]

(***************************************************************************)
(* get_contrib_requirements, lines 70-92.                                  *)
(***************************************************************************)

\* ast.iter_child_nodes restricted to the statement nodes (no expression
\* node is an ast.Assign or an ast.ClassDef).
IterChildNodes(node) == node.body

\* ast.walk: breadth first from the node itself (a deque, popleft, extend).
RECURSIVE WalkQueue(_)
WalkQueue(todo) ==
    IF todo = <<>> THEN <<>>
    ELSE <<Head(todo)>> \o WalkQueue(Tail(todo) \o IterChildNodes(Head(todo)))

Walk(node) == WalkQueue(<<node>>)

\* Lines 81-85: [target.id for target in node.targets]; a target without
\* .id (Tuple, List, Attribute, Subscript) raises AttributeError, which is
\* caught and leaves target_ids empty.
TargetIds_Destructured(node) ==
    Flatten([i \in DOMAIN node.targets |->
                IF node.targets[i].t = "Name" THEN <<node.targets[i].id>>
                ELSE node.targets[i].elts])

TargetIds(node) ==
    IF \A i \in DOMAIN node.targets : node.targets[i].t = "Name"
    THEN [i \in DOMAIN node.targets |-> node.targets[i].id]
    ELSE <<>>

\* ast.literal_eval: ValueError on a node that is no literal.
LiteralEval_Lenient(v) ==
    IF v.e \in {"Dict", "List", "None"}
    THEN [exc |-> "none", val |-> v]
    ELSE [exc |-> "none", val |-> DictE({}, <<>>)]

LiteralEval(v) ==
    IF v.e \in {"Dict", "List", "None"}
    THEN [exc |-> "none", val |-> v]
    ELSE [exc |-> "ValueError", val |-> NoneE]

\* library_metadata.get("requirements", []): AttributeError when the
\* literal has no .get, the default when the key is absent.
MetadataGet(lit) ==
    IF lit.e # "Dict" THEN [exc |-> "AttributeError", val |-> <<>>]
    ELSE IF "requirements" \in lit.keys THEN [exc |-> "none", val |-> lit.requirements]
    ELSE [exc |-> "none", val |-> <<>>]

\* requirements_info["requirements"] += <list>: list.extend.
ExtendRequirements_Dedup(reqs, more) ==
    reqs \o SelectSeq(more, LAMBDA r : r \notin Range(reqs))

ExtendRequirements(reqs, more) == reqs \o more

\* requirements_info["classes"] += child.name: list.extend over a str, one
\* element per character.
ExtendClasses(classes, name) ==
    classes \o [i \in DOMAIN name |-> <<name[i]>>]

\* Lines 80-90 for one node of the walk; an exception already raised stays.
VisitNode(info, node) ==
    IF info.exc # "none" \/ node.k # "Assign" THEN info
    ELSE IF "library_metadata" \notin Range(TargetIds(node)) THEN info
    ELSE LET lit == LiteralEval(node.value) IN
         IF lit.exc # "none" THEN [info EXCEPT !.exc = lit.exc]
         ELSE LET got == MetadataGet(lit.val) IN
              IF got.exc # "none" THEN [info EXCEPT !.exc = got.exc]
              ELSE [info EXCEPT !.requirements = ExtendRequirements(@, got.val)]

RECURSIVE VisitNodes(_, _)
VisitNodes(info, nodes) ==
    IF nodes = <<>> THEN info
    ELSE VisitNodes(VisitNode(info, Head(nodes)), Tail(nodes))

\* One iteration of the loop of line 75.
ProcessChild_AnyStatement(info, child) ==
    VisitNodes([info EXCEPT !.classes =
                    IF child.k = "ClassDef" THEN ExtendClasses(@, child.name) ELSE @],
               Walk(child))

ProcessChild(info, child) ==
    IF child.k # "ClassDef" THEN info
    ELSE VisitNodes([info EXCEPT !.classes = ExtendClasses(@, child.name)],
                    Walk(child))

TopClasses(tree) == SelectSeq(tree, LAMBDA s : s.k = "ClassDef")

EmptyInfo == [exc |-> "none", classes |-> <<>>, requirements |-> <<>>]

RECURSIVE ProcessChildren(_, _)
ProcessChildren(info, children) ==
    IF children = <<>> \/ info.exc # "none" THEN info
    ELSE ProcessChildren(ProcessChild(info, Head(children)), Tail(children))

\* The whole function on a parsed file.
GetContribRequirements(tree) == ProcessChildren(EmptyInfo, tree)

(***************************************************************************)
(* Source files the extractor is run on.                                   *)
(***************************************************************************)
MaxTop == 2     \* top-level statements per file

LM == "library_metadata"

DictAB    == DictE({"maturity", "requirements"}, <<"numpy>=1.20", "pandas">>)
DictB     == DictE({"maturity", "requirements"}, <<"pandas">>)
DictNoReq == DictE({"maturity"}, <<>>)

Values == {CallE, ListE, DictNoReq, DictAB, DictB}

\* Target lists other than the single name library_metadata: a destructuring
\* target naming it, two chained assignments, an unrelated name.
OtherTargets ==
    { <<TupleT(<<LM, "x">>)>>,
      <<NameT("x"), NameT(LM)>>,
      <<NameT(LM), AttributeT("x")>>,
      <<NameT("other")>> }

Leaves ==
    {Assign(<<NameT(LM)>>, v) : v \in Values}
    \cup {Assign(ts, v) : ts \in OtherTargets, v \in {CallE, DictB}}
    \cup {Pass}

InnerName == <<"I", "n">>
ClassNames == {<<"A">>, <<"F", "o", "o">>}

ClassBodies ==
    {<<l>> : l \in Leaves}
    \cup {<<ClassDef(InnerName, <<Assign(<<NameT(LM)>>, v)>>)>> : v \in {CallE, DictB}}
    \cup {<<FunctionDef(<<Assign(<<NameT(LM)>>, DictB)>>)>>}
    \cup {<<Assign(<<NameT(LM)>>, DictAB),
            ClassDef(InnerName, <<Assign(<<NameT(LM)>>, DictB)>>)>>,
          <<ClassDef(InnerName, <<Assign(<<NameT(LM)>>, DictB)>>),
            Assign(<<NameT(LM)>>, DictAB)>>}

TopStatements ==
    {ClassDef(n, b) : n \in ClassNames, b \in ClassBodies}
    \cup {FunctionDef(<<ClassDef(InnerName, <<Assign(<<NameT(LM)>>, v)>>)>>) :
            v \in {CallE, DictB}}
    \cup {Assign(<<NameT(LM)>>, v) : v \in {CallE, DictB}}
    \cup {Pass}

SeqsUpTo(S, n) == UNION {[1..m -> S] : m \in 0..n}

Files == SeqsUpTo(TopStatements, MaxTop)

(***************************************************************************)
(* SpecExtract: get_contrib_requirements as its loop runs.                 *)
(***************************************************************************)
GalleryIdle ==
    /\ pc = "idle" /\ as_main = FALSE
    /\ include_core = FALSE /\ include_contrib_experimental = FALSE
    /\ registry = {} /\ dir_files = <<>>
    /\ expectations_all = <<>> /\ metrics_all = <<>>
    /\ core_expectations = {} /\ all_expectations = {} /\ build_expectations = {}
    /\ requirements_dict = <<>> /\ fi = 0 /\ pi = 0 /\ ri = 0
    /\ gallery_info = <<>> /\ diag_calls = <<>> /\ log = <<>>
    /\ exc = "none" /\ outfile = "absent"

\* Lines 71-74.
InitExtract ==
    /\ x_tree \in Files
    /\ x_pc = "loop"
    /\ x_idx = 1
    /\ requirements_info = EmptyInfo
    /\ x_exc = "none"
    /\ GalleryIdle

\* Lines 76-77: a child that is no class definition is skipped.
XContinue ==
    /\ x_pc = "loop" /\ x_idx <= Len(x_tree)
    /\ x_tree[x_idx].k # "ClassDef"
    /\ requirements_info' = ProcessChild(requirements_info, x_tree[x_idx])
    /\ x_idx' = x_idx + 1
    /\ UNCHANGED <<x_pc, x_tree, x_exc, gvars>>

\* Lines 78-90: a class definition whose walk raises nothing.
XClassDef ==
    /\ x_pc = "loop" /\ x_idx <= Len(x_tree)
    /\ x_tree[x_idx].k = "ClassDef"
    /\ LET r == ProcessChild(requirements_info, x_tree[x_idx]) IN
        /\ r.exc = "none"
        /\ requirements_info' = r
    /\ x_idx' = x_idx + 1
    /\ UNCHANGED <<x_pc, x_tree, x_exc, gvars>>

\* Lines 87-88 raising: nothing in the function catches it.
XRaise ==
    /\ x_pc = "loop" /\ x_idx <= Len(x_tree)
    /\ LET r == ProcessChild(requirements_info, x_tree[x_idx]) IN
        /\ r.exc # "none"
        /\ x_exc' = r.exc
    /\ x_pc' = "raised"
    /\ UNCHANGED <<x_tree, x_idx, requirements_info, gvars>>

\* Line 92.
XReturn ==
    /\ x_pc = "loop" /\ x_idx > Len(x_tree)
    /\ x_pc' = "returned"
    /\ UNCHANGED <<x_tree, x_idx, requirements_info, x_exc, gvars>>

NextExtract == XContinue \/ XClassDef \/ XRaise \/ XReturn

SpecExtract == InitExtract /\ [][NextExtract]_vars

(***************************************************************************)
(* execute_shell_command, lines 20-67.                                     *)
(***************************************************************************)

\* subprocess.run(args=["bash", "-c", command], ..., check=True) with the
\* child's exit code given: CalledProcessError on a nonzero exit is caught
\* (lines 56-65) and becomes the returned status code.
ExecuteShellCommand_Propagates(command, exit_code) ==
    [args |-> <<"bash", "-c">> \o command,
     status_code |-> 0,
     raised |-> IF exit_code = 0 THEN "none" ELSE "CalledProcessError"]

ExecuteShellCommand(command, exit_code) ==
    [args |-> <<"bash", "-c">> \o command,
     status_code |-> IF exit_code = 0 THEN 0 ELSE exit_code,
     raised |-> "none"]

\* f'pip install "{req}"', lines 131 and 144, as its pieces.
PipInstallCommand(req) == <<"pip install \"", req, "\"">>

(***************************************************************************)
(* The environment build_gallery runs in.                                  *)
(***************************************************************************)
MaxFiles == 2       \* files under the experimental directory

ExitCodes == {0, 1}

CoreSets == {{"expect_core_a"}, {"expect_core_a", "expect_core_b"}}

ExpectationsAllOptions == {<<"p">>, <<"p", "q">>}
MetricsAllOptions == {<<"q">>, <<"m">>}

FileName(stem, ext) == [stem |-> stem, ext |-> ext]

ModuleAB   == <<ClassDef(<<"P">>, <<Assign(<<NameT(LM)>>, DictAB)>>)>>
ModuleB    == <<ClassDef(<<"Q">>, <<Assign(<<NameT(LM)>>, DictB)>>)>>
ModuleCall == <<ClassDef(<<"P">>, <<Assign(<<NameT(LM)>>, CallE)>>)>>
ModuleList == <<ClassDef(<<"Q">>, <<Assign(<<NameT(LM)>>, ListE)>>)>>
ModuleTopLevelCall == <<Assign(<<NameT(LM)>>, CallE), ClassDef(<<"Q">>, <<Pass>>)>>

DirEntries ==
    { [name |-> FileName("p", ".py"),        tree |-> ModuleAB],
      [name |-> FileName("p", ".py"),        tree |-> ModuleCall],
      [name |-> FileName("q", ".py"),        tree |-> ModuleB],
      [name |-> FileName("q", ".py"),        tree |-> ModuleList],
      [name |-> FileName("q", ".py"),        tree |-> ModuleTopLevelCall],
      [name |-> FileName("__init__", ".py"), tree |-> ModuleCall],
      [name |-> FileName("p", ".txt"),       tree |-> ModuleCall] }

\* The identifiers a plugin submodule registers when it is imported; a
\* metrics plugin registers no expectation.
RegisteredBy(aggregator, name) ==
    IF aggregator # "expectations" THEN {}
    ELSE CASE name = "p" -> {"expect_p"}
           [] name = "q" -> {"expect_q"}
           [] OTHER -> {}

Event(op, arg, exit_code, status) ==
    [op |-> op, arg |-> arg, exit_code |-> exit_code, status |-> status]

(***************************************************************************)
(* build_gallery, lines 95-172, and the script, lines 175-178.             *)
(***************************************************************************)
ExtractIdle ==
    /\ x_pc = "idle" /\ x_tree = <<>> /\ x_idx = 0
    /\ requirements_info = EmptyInfo /\ x_exc = "none"

Init ==
    /\ ExtractIdle
    /\ pc = "start"
    /\ as_main \in BOOLEAN
    /\ include_core \in BOOLEAN
    /\ include_contrib_experimental \in BOOLEAN
    /\ as_main => include_core /\ include_contrib_experimental      \* line 176
    /\ registry \in CoreSets
    /\ dir_files \in SeqsUpTo(DirEntries, MaxFiles)
    /\ expectations_all \in ExpectationsAllOptions
    /\ metrics_all \in MetricsAllOptions
    /\ core_expectations = {} /\ all_expectations = {} /\ build_expectations = {}
    /\ requirements_dict = <<>>
    /\ fi = 0 /\ pi = 0 /\ ri = 0
    /\ gallery_info = <<>> /\ diag_calls = <<>>
    /\ log = <<>>
    /\ exc = "none"
    /\ outfile = "absent"

Env == <<as_main, include_core, include_contrib_experimental, dir_files,
         expectations_all, metrics_all>>

\* An uncaught exception: nothing in build_gallery or the script catches.
Abort(e) == pc' = "aborted" /\ exc' = e

\* Line 97.
ImportLibrary ==
    /\ pc = "start"
    /\ log' = Append(log, Event("import_library", <<"great_expectations">>, 0, 0))
    /\ pc' = "list_core"
    /\ UNCHANGED <<xvars, Env, registry, core_expectations, all_expectations,
                   build_expectations, requirements_dict, fi, pi, ri,
                   gallery_info, diag_calls, exc, outfile>>

\* Line 103.
AfterListCore_Always(contrib) == "find_contrib"

AfterListCore(contrib) == IF contrib THEN "find_contrib" ELSE "list_all"

\* Lines 99-103.
ListCore ==
    /\ pc = "list_core"
    /\ core_expectations' = registry
    /\ log' = Append(log, Event("list", <<>>, 0, 0))
    /\ pc' = AfterListCore(include_contrib_experimental)
    /\ UNCHANGED <<xvars, Env, registry, all_expectations, build_expectations,
                   requirements_dict, fi, pi, ri, gallery_info, diag_calls,
                   exc, outfile>>

\* Lines 104-117: the search path is extended and the expectations
\* aggregator imported.
FindContrib ==
    /\ pc = "find_contrib"
    /\ log' = log \o <<Event("path_append", <<"great_expectations_experimental">>, 0, 0),
                       Event("import", <<"expectations">>, 0, 0)>>
    /\ requirements_dict' = <<>>
    /\ pc' = "start_walk"
    /\ UNCHANGED <<xvars, Env, registry, core_expectations, all_expectations,
                   build_expectations, fi, pi, ri, gallery_info, diag_calls,
                   exc, outfile>>

\* Lines 114-116 raising (the aggregator cannot be imported).
FindContribRaise ==
    /\ pc = "find_contrib"
    /\ log' = log \o <<Event("path_append", <<"great_expectations_experimental">>, 0, 0),
                       Event("import", <<"expectations">>, 0, 0)>>
    /\ Abort("ImportError")
    /\ UNCHANGED <<xvars, Env, registry, core_expectations, all_expectations,
                   build_expectations, requirements_dict, fi, pi, ri,
                   gallery_info, diag_calls, outfile>>

\* Line 118: os.walk(contrib_experimental_dir).
StartWalk ==
    /\ pc = "start_walk"
    /\ log' = Append(log, Event("walk", <<"great_expectations_experimental">>, 0, 0))
    /\ fi' = 1
    /\ pc' = "walk"
    /\ UNCHANGED <<xvars, Env, registry, core_expectations, all_expectations,
                   build_expectations, requirements_dict, pi, ri, gallery_info,
                   diag_calls, exc, outfile>>

\* Line 120.
IsPluginFile(name) ==
    name.ext = ".py" /\ ~(name.stem = "__init__" /\ name.ext = ".py")

\* file[:-3] of a name that ends in ".py".
ModuleOfFile(name) == name.stem

\* Line 120 false: the file is passed over.
WalkSkip ==
    /\ pc = "walk" /\ fi <= Len(dir_files)
    /\ ~IsPluginFile(dir_files[fi].name)
    /\ fi' = fi + 1
    /\ UNCHANGED <<xvars, Env, pc, registry, core_expectations, all_expectations,
                   build_expectations, requirements_dict, pi, ri, gallery_info,
                   diag_calls, log, exc, outfile>>

\* Lines 121-124: the extractor returns and its result is stored under the
\* file's base name (a later file of the same base name replaces it).
WalkExtract ==
    /\ pc = "walk" /\ fi <= Len(dir_files)
    /\ IsPluginFile(dir_files[fi].name)
    /\ LET r == GetContribRequirements(dir_files[fi].tree)
           m == ModuleOfFile(dir_files[fi].name) IN
        /\ r.exc = "none"
        /\ requirements_dict' =
              [k \in DOMAIN requirements_dict \cup {m} |->
                  IF k = m THEN [classes |-> r.classes, requirements |-> r.requirements]
                  ELSE requirements_dict[k]]
    /\ log' = Append(log, Event("extract",
                  <<dir_files[fi].name.stem, dir_files[fi].name.ext>>, 0, 0))
    /\ fi' = fi + 1
    /\ UNCHANGED <<xvars, Env, pc, registry, core_expectations, all_expectations,
                   build_expectations, pi, ri, gallery_info, diag_calls, exc,
                   outfile>>

\* Line 122 with the extractor raising.
WalkRaise ==
    /\ pc = "walk" /\ fi <= Len(dir_files)
    /\ IsPluginFile(dir_files[fi].name)
    /\ LET r == GetContribRequirements(dir_files[fi].tree) IN
        /\ r.exc # "none"
        /\ Abort(r.exc)
    /\ log' = Append(log, Event("extract",
                  <<dir_files[fi].name.stem, dir_files[fi].name.ext>>, 0, 0))
    /\ UNCHANGED <<xvars, Env, registry, core_expectations, all_expectations,
                   build_expectations, requirements_dict, fi, pi, ri,
                   gallery_info, diag_calls, outfile>>

\* The walk is exhausted: on to the loop of line 126.
WalkDone ==
    /\ pc = "walk" /\ fi > Len(dir_files)
    /\ pc' = "expectations" /\ pi' = 1 /\ ri' = 0
    /\ UNCHANGED <<xvars, Env, registry, core_expectations, all_expectations,
                   build_expectations, requirements_dict, fi, gallery_info,
                   diag_calls, log, exc, outfile>>

\* The __all__ the loop at pc iterates over.
Declared == IF pc = "expectations" THEN expectations_all ELSE metrics_all

\* Lines 127-129 and 140-142: the requirements of the plugin still to be
\* installed, ri of them done.
PendingRequirements_Skipped(dict, name, done) == <<>>

PendingRequirements(dict, name, done) ==
    IF name \in DOMAIN dict
    THEN SubSeq(dict[name].requirements, done + 1, Len(dict[name].requirements))
    ELSE <<>>

\* Lines 130-131 and 143-144: one requirement is handed to the installer;
\* the returned status code is dropped.
InstallRequirement ==
    /\ pc \in {"expectations", "metrics"} /\ pi <= Len(Declared)
    /\ PendingRequirements(requirements_dict, Declared[pi], ri) # <<>>
    /\ \E exit_code \in ExitCodes :
          LET req == Head(PendingRequirements(requirements_dict, Declared[pi], ri))
              r == ExecuteShellCommand(PipInstallCommand(req), exit_code) IN
            /\ log' = Append(log, Event("run", r.args, exit_code, r.status_code))
            /\ IF r.raised = "none"
               THEN ri' = ri + 1 /\ UNCHANGED <<pc, exc>>
               ELSE Abort(r.raised) /\ UNCHANGED ri
    /\ UNCHANGED <<xvars, Env, registry, core_expectations, all_expectations,
                   build_expectations, requirements_dict, fi, pi, gallery_info,
                   diag_calls, outfile>>

\* Lines 132-135 and 145-148: the plugin submodule is imported and
\* registers its expectations.
ImportPlugin ==
    /\ pc \in {"expectations", "metrics"} /\ pi <= Len(Declared)
    /\ PendingRequirements(requirements_dict, Declared[pi], ri) = <<>>
    /\ log' = Append(log, Event("import", <<pc, ".", Declared[pi]>>, 0, 0))
    /\ registry' = registry \cup RegisteredBy(pc, Declared[pi])
    /\ pi' = pi + 1 /\ ri' = 0
    /\ UNCHANGED <<xvars, Env, pc, core_expectations, all_expectations,
                   build_expectations, requirements_dict, fi, gallery_info,
                   diag_calls, exc, outfile>>

\* The same import raising (a dependency is missing, the module is broken).
ImportPluginRaise ==
    /\ pc \in {"expectations", "metrics"} /\ pi <= Len(Declared)
    /\ PendingRequirements(requirements_dict, Declared[pi], ri) = <<>>
    /\ log' = Append(log, Event("import", <<pc, ".", Declared[pi]>>, 0, 0))
    /\ Abort("ImportError")
    /\ UNCHANGED <<xvars, Env, registry, core_expectations, all_expectations,
                   build_expectations, requirements_dict, fi, pi, ri,
                   gallery_info, diag_calls, outfile>>

\* Lines 136-138: the expectations are done, the metrics aggregator is
\* imported.
ImportMetrics ==
    /\ pc = "expectations" /\ pi > Len(expectations_all)
    /\ log' = Append(log, Event("import", <<"metrics">>, 0, 0))
    /\ pc' = "metrics" /\ pi' = 1 /\ ri' = 0
    /\ UNCHANGED <<xvars, Env, registry, core_expectations, all_expectations,
                   build_expectations, requirements_dict, fi, gallery_info,
                   diag_calls, exc, outfile>>

ImportMetricsRaise ==
    /\ pc = "expectations" /\ pi > Len(expectations_all)
    /\ log' = Append(log, Event("import", <<"metrics">>, 0, 0))
    /\ Abort("ImportError")
    /\ UNCHANGED <<xvars, Env, registry, core_expectations, all_expectations,
                   build_expectations, requirements_dict, fi, pi, ri,
                   gallery_info, diag_calls, outfile>>

\* The loop of line 139 is exhausted.
MetricsDone ==
    /\ pc = "metrics" /\ pi > Len(metrics_all)
    /\ pc' = "list_all"
    /\ UNCHANGED <<xvars, Env, registry, core_expectations, all_expectations,
                   build_expectations, requirements_dict, fi, pi, ri,
                   gallery_info, diag_calls, log, exc, outfile>>

\* Lines 155-158.
BuildExpectations_Swapped(core_flag, all, core) ==
    IF core_flag THEN all \ core ELSE all

BuildExpectations(core_flag, all, core) ==
    IF core_flag THEN all ELSE all \ core

\* Lines 151-163.
ListAll ==
    /\ pc = "list_all"
    /\ all_expectations' = registry
    /\ build_expectations' = BuildExpectations(include_core, registry, core_expectations)
    /\ log' = Append(log, Event("list", <<>>, 0, 0))
    /\ gallery_info' = <<>>
    /\ pc' = "diagnose"
    /\ UNCHANGED <<xvars, Env, registry, core_expectations, requirements_dict,
                   fi, pi, ri, diag_calls, exc, outfile>>

\* run_diagnostics' result: opaque to the script.
Diagnostics(expectation) == <<"diagnostics of", expectation>>

Called(calls, e) ==
    [k \in DOMAIN calls \cup {e} |->
        IF k = e THEN (IF e \in DOMAIN calls THEN calls[e] + 1 ELSE 1) ELSE calls[k]]

\* Lines 164-170 for one element of the set, in whatever order the set
\* yields it.
Diagnose ==
    /\ pc = "diagnose"
    /\ \E expectation \in build_expectations \ DOMAIN diag_calls :
          /\ diag_calls' = Called(diag_calls, expectation)
          /\ gallery_info' =
                [k \in DOMAIN gallery_info \cup {expectation} |->
                    IF k = expectation THEN Diagnostics(expectation)
                    ELSE gallery_info[k]]
    /\ UNCHANGED <<xvars, Env, pc, registry, core_expectations, all_expectations,
                   build_expectations, requirements_dict, fi, pi, ri, log, exc,
                   outfile>>

\* Line 169 raising.
DiagnoseRaise_Swallowed ==
    /\ pc = "diagnose"
    /\ \E expectation \in build_expectations \ DOMAIN diag_calls :
          diag_calls' = Called(diag_calls, expectation)
    /\ UNCHANGED <<xvars, Env, pc, registry, core_expectations, all_expectations,
                   build_expectations, requirements_dict, fi, pi, ri,
                   gallery_info, log, exc, outfile>>

DiagnoseRaise ==
    /\ pc = "diagnose"
    /\ \E expectation \in build_expectations \ DOMAIN diag_calls :
          diag_calls' = Called(diag_calls, expectation)
    /\ Abort("DiagnosticsError")
    /\ UNCHANGED <<xvars, Env, registry, core_expectations, all_expectations,
                   build_expectations, requirements_dict, fi, pi, ri,
                   gallery_info, log, outfile>>

\* Line 172; line 176 receives the mapping when run as the script.
Return ==
    /\ pc = "diagnose"
    /\ build_expectations \ DOMAIN diag_calls = {}
    /\ pc' = IF as_main THEN "dump" ELSE "returned"
    /\ UNCHANGED <<xvars, Env, registry, core_expectations, all_expectations,
                   build_expectations, requirements_dict, fi, pi, ri,
                   gallery_info, diag_calls, log, exc, outfile>>

\* Lines 177-178.
Dump ==
    /\ pc = "dump"
    /\ log' = Append(log, Event("open", <<"./expectation_library.json", "w">>, 0, 0))
    /\ outfile' = "written"
    /\ pc' = "exited"
    /\ UNCHANGED <<xvars, Env, registry, core_expectations, all_expectations,
                   build_expectations, requirements_dict, fi, pi, ri,
                   gallery_info, diag_calls, exc>>

\* json.dump raising on a diagnostics value it cannot serialise: the file
\* was opened for writing and holds whatever was written before.
DumpRaise ==
    /\ pc = "dump"
    /\ log' = Append(log, Event("open", <<"./expectation_library.json", "w">>, 0, 0))
    /\ outfile' = "partial"
    /\ Abort("TypeError")
    /\ UNCHANGED <<xvars, Env, registry, core_expectations, all_expectations,
                   build_expectations, requirements_dict, fi, pi, ri,
                   gallery_info, diag_calls>>

Next ==
    \/ ImportLibrary \/ ListCore
    \/ FindContrib \/ FindContribRaise \/ StartWalk
    \/ WalkSkip \/ WalkExtract \/ WalkRaise \/ WalkDone
    \/ InstallRequirement \/ ImportPlugin \/ ImportPluginRaise
    \/ ImportMetrics \/ ImportMetricsRaise \/ MetricsDone
    \/ ListAll \/ Diagnose \/ DiagnoseRaise \/ Return
    \/ Dump \/ DumpRaise

Spec == Init /\ [][Next]_vars

(***************************************************************************)
(* Properties of build_gallery and the script (checked under Spec).        *)
(***************************************************************************)
Ops == {log[i].op : i \in DOMAIN log}

Count(op) == Len(SelectSeq(log, LAMBDA e : e.op = op))

IsSubmoduleImport(e) == e.op = "import" /\ Len(e.arg) = 3

\* The installer calls and plugin submodule imports made so far, in order,
\* without the installer's outcome.
PluginEvents ==
    LET evs == SelectSeq(log, LAMBDA e : e.op = "run" \/ IsSubmoduleImport(e)) IN
    [i \in DOMAIN evs |-> <<evs[i].op, evs[i].arg>>]

\* What one declared plugin calls for: bash -c 'pip install "<req>"' for
\* each entry of the requirements extracted under its name, then its import.
ExpectedFor(aggregator, name) ==
    LET reqs == IF name \in DOMAIN requirements_dict
                THEN requirements_dict[name].requirements ELSE <<>> IN
    [i \in DOMAIN reqs |-> <<"run", <<"bash", "-c", "pip install \"", reqs[i], "\"">>>>]
    \o << <<"import", <<aggregator, ".", name>>>> >>

ExpectedPluginEvents ==
    Flatten([i \in DOMAIN expectations_all |->
                ExpectedFor("expectations", expectations_all[i])])
    \o Flatten([i \in DOMAIN metrics_all |->
                ExpectedFor("metrics", metrics_all[i])])

IsPrefix(a, b) == Len(a) <= Len(b) /\ a = SubSeq(b, 1, Len(a))

PastPlugins == pc \in {"list_all", "diagnose", "returned", "dump", "exited"}

Completed == pc \in {"returned", "dump", "exited"}

\* C1: with include_contrib_experimental false nothing is installed,
\* extracted, walked or imported from the experimental package, for either
\* value of include_core: the run makes at most the two registry listings
\* and one diagnostics call per selected identifier.
C1_NoContribNoSideEffects ==
    ~include_contrib_experimental =>
        /\ Ops \subseteq {"import_library", "list"}
        /\ Count("list") <= 2
        /\ requirements_dict = <<>>
        /\ registry = core_expectations \/ pc \in {"start", "list_core"}
        /\ DOMAIN diag_calls \subseteq build_expectations
        /\ \A e \in DOMAIN diag_calls : diag_calls[e] = 1

C1_Witness ==
    /\ ~include_contrib_experimental
    /\ pc = "returned"
    /\ Count("list") = 2
    /\ Cardinality(DOMAIN diag_calls) = 2

\* C2: build_gallery(include_core=True, include_contrib_experimental=False)
\* returns a mapping whose keys are exactly the identifiers of the first
\* registry listing, each diagnosed once.
C2_KeysAreCoreSet ==
    (pc = "returned" /\ include_core /\ ~include_contrib_experimental) =>
        /\ DOMAIN gallery_info = core_expectations
        /\ DOMAIN diag_calls = core_expectations
        /\ \A e \in core_expectations :
              diag_calls[e] = 1 /\ gallery_info[e] = Diagnostics(e)

C2_Witness ==
    /\ pc = "returned" /\ include_core /\ ~include_contrib_experimental
    /\ core_expectations = {"expect_core_a", "expect_core_b"}
    /\ DOMAIN gallery_info = {"expect_core_a", "expect_core_b"}

FailedInstalls == {i \in DOMAIN log : log[i].op = "run" /\ log[i].exit_code # 0}

\* C3: a failing installer is turned into the returned status code and
\* never raised, and the run goes on: once the plugin loops are over every
\* requirement of every declared plugin was handed to the installer and
\* every declared plugin was imported, whatever the installer returned,
\* and a run that completes has diagnosed every selected identifier.
C3_InstallFailureIgnored ==
    /\ exc # "CalledProcessError"
    /\ \A i \in DOMAIN log :
          log[i].op = "run" => log[i].status = log[i].exit_code
    /\ (log # <<>> /\ log[Len(log)].op = "run") =>
          pc \in {"expectations", "metrics"} /\ exc = "none"
    /\ (FailedInstalls # {} /\ PastPlugins) => PluginEvents = ExpectedPluginEvents
    /\ (FailedInstalls # {} /\ Completed) => DOMAIN gallery_info = build_expectations

C3_Witness ==
    /\ pc = "returned"
    /\ gallery_info # <<>>
    /\ Len(PluginEvents) = 7
    /\ \E i \in FailedInstalls :
          /\ log[i + 1].op = "run"
          /\ IsSubmoduleImport(log[i + 2])
          /\ \E j \in DOMAIN log : j > i + 2 /\ log[j].op = "run" /\ log[j].exit_code = 0

\* A class-level assignment to the single name library_metadata whose
\* right-hand side is no literal mapping.
HasFaultyMetadata(tree) ==
    \E i \in DOMAIN TopClasses(tree) :
        \E n \in Range(Walk(TopClasses(tree)[i])) :
            n.k = "Assign" /\ n.targets = <<NameT(LM)>> /\ n.value.e # "Dict"

FaultyDirectory ==
    \E i \in DOMAIN dir_files :
        /\ dir_files[i].name.ext = ".py"
        /\ dir_files[i].name.stem # "__init__"
        /\ HasFaultyMetadata(dir_files[i].tree)

\* C6: with a faulty library_metadata in some plugin file of the directory,
\* build_gallery(include_contrib_experimental=True) never gets past the
\* extraction loop: the extractor's exception aborts the run, nothing is
\* returned, and no installer call or plugin submodule import was made.
C6_ExtractionFaultAborts ==
    /\ (include_contrib_experimental /\ FaultyDirectory) =>
          /\ pc \in {"start", "list_core", "find_contrib", "start_walk", "walk", "aborted"}
          /\ pc = "aborted" => exc \in {"ImportError", "ValueError", "AttributeError"}
          /\ pc = "walk" => \A i \in 1..(fi - 1) :
                ~(IsPluginFile(dir_files[i].name) /\ HasFaultyMetadata(dir_files[i].tree))
    /\ exc \in {"ValueError", "AttributeError"} =>
          /\ pc = "aborted"
          /\ FaultyDirectory
          /\ PluginEvents = <<>>
          /\ gallery_info = <<>>
          /\ outfile = "absent"

C6_Witness ==
    /\ pc = "aborted" /\ exc = "ValueError"
    /\ fi = 2
    /\ DOMAIN requirements_dict # {}
    /\ PluginEvents = <<>>

\* C7: the installer calls and submodule imports happen in the order the
\* aggregators declare the plugins: for each declared plugin, one
\* bash -c 'pip install "<req>"' per entry of the requirements extracted
\* under its name, in order, and then its import; nothing else is
\* installed, and nothing is installed for a plugin after its import.
C7_InstallBeforeImport ==
    /\ IsPrefix(PluginEvents, ExpectedPluginEvents)
    /\ (include_contrib_experimental /\ PastPlugins) =>
          PluginEvents = ExpectedPluginEvents

C7_Witness ==
    /\ pc = "diagnose"
    /\ Len(PluginEvents) = 7
    /\ PluginEvents[1][1] = "run" /\ PluginEvents[2][1] = "run"
    /\ PluginEvents[3] = <<"import", <<"expectations", ".", "p">>>>
    /\ PluginEvents[7] = <<"import", <<"metrics", ".", "q">>>>

\* C8: the output file is opened at most once, only by the script and only
\* after build_gallery returned with every selected identifier diagnosed;
\* a run ended by an exception of the extractor, of an import or of
\* run_diagnostics has not touched the file.
C8_SingleWriteAtEnd ==
    /\ Count("open") <= 1
    /\ Count("open") = 0 <=> outfile = "absent"
    /\ Count("open") = 1 =>
          /\ as_main
          /\ pc \in {"exited", "aborted"}
          /\ DOMAIN gallery_info = build_expectations
          /\ \A e \in build_expectations : e \in DOMAIN diag_calls /\ diag_calls[e] = 1
    /\ exc \in {"ValueError", "AttributeError", "ImportError", "DiagnosticsError"} =>
          outfile = "absent"

C8_Witness ==
    /\ pc = "exited"
    /\ outfile = "written"
    /\ Cardinality(DOMAIN gallery_info) >= 3
    /\ FailedInstalls # {}

(***************************************************************************)
(* Properties of get_contrib_requirements (checked under SpecExtract).     *)
(***************************************************************************)
\* What a finished call produced agrees with the outcome r.
SameOutcome(r) ==
    /\ x_pc = "returned" => r.exc = "none" /\ requirements_info = r
    /\ x_pc = "raised" => r.exc = x_exc

\* C4: on return, `classes` holds the names of the top-level class
\* definitions in order of appearance, one string element per class.
C4_ClassesAreClassNames ==
    x_pc = "returned" =>
        requirements_info.classes =
            [i \in DOMAIN TopClasses(x_tree) |-> TopClasses(x_tree)[i].name]

\* An assignment statement that names library_metadata on its left-hand
\* side in any way.
MentionsMetadata(s) ==
    /\ s.k = "Assign"
    /\ \E i \in DOMAIN s.targets :
          \/ s.targets[i] = NameT(LM)
          \/ LM \in Range(s.targets[i].elts)

OwnMetadata(c) ==
    {i \in DOMAIN c.body : c.body[i].k = "Assign" /\ c.body[i].targets = <<NameT(LM)>>}

\* A class that assigns library_metadata to a literal mapping, once, in
\* its own body, and names it nowhere else.
DeclaresMetadata(c) ==
    /\ \A i \in DOMAIN c.body : c.body[i].k \in {"Assign", "Pass"}
    /\ Cardinality(OwnMetadata(c)) = 1
    /\ \A i \in DOMAIN c.body :
          IF i \in OwnMetadata(c) THEN c.body[i].value.e = "Dict"
          ELSE ~MentionsMetadata(c.body[i])

DeclaredRequirements(c) ==
    LET v == c.body[CHOOSE i \in OwnMetadata(c) : TRUE].value IN
    IF "requirements" \in v.keys THEN v.requirements ELSE <<>>

AllDeclareMetadata(tree) ==
    \A i \in DOMAIN TopClasses(tree) : DeclaresMetadata(TopClasses(tree)[i])

\* C5: for a file whose top-level classes each assign library_metadata to
\* a literal mapping, the call does not raise and `requirements` is the
\* concatenation, in class order, of the classes' requirements lists, each
\* in its own order and with repetitions kept; a mapping without the
\* requirements key contributes nothing.
C5_RequirementsConcatenated ==
    AllDeclareMetadata(x_tree) =>
        /\ x_pc # "raised"
        /\ x_pc = "returned" =>
              requirements_info.requirements =
                  Flatten([i \in DOMAIN TopClasses(x_tree) |->
                              DeclaredRequirements(TopClasses(x_tree)[i])])

C5_Witness ==
    /\ x_pc = "returned"
    /\ AllDeclareMetadata(x_tree)
    /\ Len(TopClasses(x_tree)) = 2
    /\ requirements_info.requirements = <<"numpy>=1.20", "pandas", "pandas">>

HasTupleTarget(s) ==
    s.k = "Assign" /\ \E i \in DOMAIN s.targets : s.targets[i].t = "Tuple"

\* The statement with every destructuring assignment under it removed.
RECURSIVE DropDestructuring(_)
DropDestructuring(s) ==
    IF HasTupleTarget(s) THEN Pass
    ELSE [s EXCEPT !.body = [i \in DOMAIN s.body |-> DropDestructuring(s.body[i])]]

WalkedNodes(tree) ==
    UNION {Range(Walk(TopClasses(tree)[i])) : i \in DOMAIN TopClasses(tree)}

\* C9: requirements are contributed only by an assignment that has the
\* simple name library_metadata as a target, and an assignment with a
\* destructuring target is skipped: the call ends as it would with every
\* such assignment deleted from the file, whatever its right-hand side.
C9_DestructuringSkipped ==
    /\ (x_pc = "returned" /\ requirements_info.requirements # <<>>) =>
          \E n \in WalkedNodes(x_tree) :
              n.k = "Assign" /\ NameT(LM) \in Range(n.targets)
    /\ SameOutcome(GetContribRequirements(
                       [i \in DOMAIN x_tree |-> DropDestructuring(x_tree[i])]))

C9_Witness ==
    /\ x_pc = "returned"
    /\ requirements_info.requirements = <<>>
    /\ Len(x_tree) = 2
    /\ x_tree[1].k = "ClassDef"
    /\ x_tree[1].body = <<Assign(<<TupleT(<<LM, "x">>)>>, CallE)>>
    /\ x_tree[2].k = "ClassDef"
    /\ x_tree[2].body = <<Assign(<<TupleT(<<LM, "x">>)>>, DictB)>>

\* The statement with every class definition at or under it removed.
RECURSIVE DropClasses(_)
DropClasses(s) ==
    IF s.k = "ClassDef" THEN Pass
    ELSE [s EXCEPT !.body = [i \in DOMAIN s.body |-> DropClasses(s.body[i])]]

\* The file with every class that is not a direct child of the module
\* root removed.
PruneNested(tree) ==
    [i \in DOMAIN tree |->
        [tree[i] EXCEPT !.body = [j \in DOMAIN @ |-> DropClasses(@[j])]]]

\* The file with every top-level statement that is no class removed.
OnlyTopClasses(tree) ==
    [i \in DOMAIN tree |-> IF tree[i].k = "ClassDef" THEN tree[i] ELSE Pass]

NoTopClass(tree) == TopClasses(tree) = <<>>

\* C10 as stated: nested classes and non-class top-level statements are
\* ignored, so the call returns what it would return with every nested
\* class deleted, and a file without a top-level class returns two empty
\* lists.
C10_NestedClassesIgnored ==
    /\ x_pc = "returned" =>
          /\ requirements_info.classes =
                 GetContribRequirements(PruneNested(x_tree)).classes
          /\ requirements_info.requirements =
                 GetContribRequirements(PruneNested(x_tree)).requirements
    /\ NoTopClass(x_tree) =>
          /\ x_pc # "raised"
          /\ x_pc = "returned" =>
                requirements_info.classes = <<>> /\ requirements_info.requirements = <<>>

\* The library_metadata assignments of the classes nested in top-level
\* class c.
NestedMetadata(c) ==
    {n \in UNION {Range(Walk(c.body[j])) : j \in {j \in DOMAIN c.body : c.body[j].k = "ClassDef"}} :
        n.k = "Assign" /\ n.targets = <<NameT(LM)>>}

\* C10 amended: a nested class adds nothing to `classes`; non-class
\* top-level statements, with the classes inside them, are ignored; a file
\* without a top-level class returns two empty lists; but the
\* library_metadata of a class nested in a top-level class is evaluated
\* with that class's subtree and its requirements are in the result.
C10_NestedRequirementsCollected ==
    /\ x_pc = "returned" =>
          requirements_info.classes = GetContribRequirements(PruneNested(x_tree)).classes
    /\ SameOutcome(GetContribRequirements(OnlyTopClasses(x_tree)))
    /\ NoTopClass(x_tree) =>
          /\ x_pc # "raised"
          /\ x_pc = "returned" =>
                requirements_info.classes = <<>> /\ requirements_info.requirements = <<>>
    /\ x_pc = "returned" =>
          \A i \in DOMAIN TopClasses(x_tree) :
              \A n \in NestedMetadata(TopClasses(x_tree)[i]) :
                  /\ n.value.e = "Dict"
                  /\ Range(n.value.requirements) \subseteq
                         Range(requirements_info.requirements)

C10_Witness ==
    /\ x_pc = "returned"
    /\ Len(x_tree) = 2
    /\ x_tree[1] = FunctionDef(<<ClassDef(InnerName, <<Assign(<<NameT(LM)>>, CallE)>>)>>)
    /\ x_tree[2].k = "ClassDef"
    /\ x_tree[2].body = <<ClassDef(InnerName, <<Assign(<<NameT(LM)>>, DictB)>>)>>
    /\ requirements_info.requirements = <<"pandas">>
    /\ Len(requirements_info.classes) = Len(x_tree[2].name)

====
